---- MODULE Spec2Model ----
(***************************************************************************)
(* A model of topology-cpu (src/cpu/src/lib.rs): Topology::init, which     *)
(* walks /sys/devices/system/node/node<N>/cpu<C>/topology and builds the   *)
(* packages / lcores / nodes maps; the query methods of Topology; and the  *)
(* process-wide LazyLock TOPO behind topology().                           *)
(*                                                                         *)
(* Option<T> is modelled as a set with at most one element: {} is None,    *)
(* {x} is Some(x).  A BitMap is modelled as the set of the indices that    *)
(* are set.  A HashMap is a function whose DOMAIN is the set of its keys.  *)
(***************************************************************************)
EXTENDS Integers, Sequences, FiniteSets, TLC

\* ------------------------------------------------------------------ bounds

\* Largest number of node<N>/cpu<C> paths the build looks at, that is the
\* largest product of the two online counts: machines of 1 x 1 up to
\* MaxPairs x 1, 1 x MaxPairs and, with 4, 2 x 2.
MaxPairs == 4
\* Largest first id "<start>" written in an online file.
MaxStart == 1
\* Largest package id a physical_package_id file reports.
MaxPkg == 1
\* Number of threads calling topology() concurrently.
NumThreads == 2

\* `as u16` keeps the low 16 bits.
U16 == 65536

Threads == 1 .. NumThreads
\* The single thread of the test (test_topology).
Main == 1

\* --------------------------------------------------------------- variables

VARIABLES
    once,            \* state of TOPO's Once: incomplete, running, complete, poisoned
    TOPO,            \* the value held by the LazyLock: {} or {Topology}
    pc,              \* pc[t]: where thread t is in topology()
    got,             \* got[t]: the reference the last call of t returned, {} if none
    inits,           \* number of times Topology::init has been entered
    crash,           \* which unwrap() of the build panicked, "none" if none did
    at,              \* position of the build: "none", "online", "loop"
    num_cpus,        \* local of init
    num_nodes,       \* local of init
    node_id,         \* outer loop variable of init
    lcore_id,        \* inner loop variable of init
    packages,        \* local of init: HashMap<u16, Package>
    lcores,          \* local of init: HashMap<u16, LCore>
    nodes,           \* local of init: HashMap<u16, Node>
    bits_of_node,    \* local of init, lcores_of_node: BitMap of the node being scanned
    node_online,     \* what the build read from node/online: <<start, end>>, <<>> before
    seen,            \* what the build found at each (node, cpu) path it looked at
    idCalls,         \* the calls of cpuid::identify_remote, in order
    qres             \* the last query made on the Topology and its result

vars == << once, TOPO, pc, got, inits, crash, at, num_cpus, num_nodes, node_id,
           lcore_id, packages, lcores, nodes, bits_of_node, node_online, seen,
           idCalls, qres >>

buildVars == << at, num_cpus, num_nodes, node_id, lcore_id, packages, lcores,
                nodes, bits_of_node, node_online, seen, idCalls >>

\* ----------------------------------------------------------------- helpers

EmptyMap == [k \in {} |-> k]

Put(m, k, v) == [x \in (DOMAIN m) \cup {k} |-> IF x = k THEN v ELSE m[x]]

\* HashMap::get
Get(m, k) == IF k \in DOMAIN m THEN {m[k]} ELSE {}

\* `x as u16`
AsU16(x) == x % U16

\* A bit-set that starts with every bit of its capacity set.
BitMapWithCapacity_AllSet(n) == 0 .. n - 1

\* BitMap::with_capacity(n): no bit set.
BitMapWithCapacity(n) == {}

\* BitMap::set(i)
BitMapSet(b, i) == b \cup {i}

\* ---------------------------------------------------- sysfs reader primitives

\* An online file, after trim().split('-') and the parse of each part: the
\* sequence of the numbers parsed.  <<>> stands for a file that cannot be
\* opened or that holds a part that is no number; <<s>> for a file holding
\* one number and no '-' (a single online id); <<s, e>> for "s-e", s <= e
\* (the kernel writes ascending ranges; "e-s" is not among the files drawn).
OnlineFiles(max) ==
    { <<>> } \cup { <<s>> : s \in 0 .. MaxStart }
             \cup { <<s, s + n - 1>> : s \in 0 .. MaxStart, n \in 1 .. max }

\* read_online_from_sysfs panics: open/read/parse unwrap(), or iter[1] out of bounds.
OnlinePanics(f) == Len(f) < 2

\* read_online_from_sysfs: end - start + 1
read_online_from_sysfs(f) == f[2] - f[1] + 1

\* A physical_package_id / core_id file: the number it holds, or -1 when the
\* file is missing or does not parse as usize (a kernel-written "-1" included).
IntegerPanics(x) == x < 0

\* read_integer_from_sysfs
read_integer_from_sysfs(x) == x

\* What a core_id file holds.  The number read is stored in LCore.core_id and
\* read by nothing in the crate, so one value stands for all of them.
CoreIdFiles == {-1, 0}

\* The states of a node<N>/cpu<C>/topology path: absent, or a directory whose
\* two files hold these numbers (-1: missing or unparsable).
DirStates ==
    { [exists |-> FALSE] } \cup
    [ exists : {TRUE}, physical_package_id : -1 .. MaxPkg, core_id : CoreIdFiles ]

\* ------------------------------------------------------------ Topology::init

\* The LCore with core_id written where lcore_id belongs.
NewLCore_CoreIdForLcoreId(package_id, n, l, core_id) ==
    [ package_id |-> package_id, node_id |-> AsU16(n), lcore_id |-> core_id,
      core_id |-> core_id ]

\* The LCore inserted at lines 59-67.
NewLCore(package_id, n, l, core_id) ==
    [ package_id |-> package_id, node_id |-> AsU16(n), lcore_id |-> AsU16(l),
      core_id |-> core_id ]

\* cpuid::identify_remote(lcore_id) when it succeeds: the record of that core.
CpuInfo(l) == [ identified_on |-> AsU16(l) ]

\* The entry without the trailing .lcores.set(lcore_id): a core is marked
\* only in the Package it creates.
PackageEntry_NoSet(pkgs, package_id, n, l, cap) ==
    IF package_id \in DOMAIN pkgs
    THEN pkgs
    ELSE Put(pkgs, package_id,
             [ package_id |-> package_id, node_id |-> AsU16(n),
               cpu_info |-> [ identified_on |-> AsU16(l) ],
               lcores |-> BitMapSet(BitMapWithCapacity(cap), l) ])

\* packages.entry(package_id).or_insert(Package {..}).lcores.set(lcore_id)
PackageEntry(pkgs, package_id, n, l, cap) ==
    LET fresh == [ package_id |-> package_id, node_id |-> AsU16(n),
                   cpu_info |-> CpuInfo(l),
                   lcores |-> BitMapSet(BitMapWithCapacity(cap), l) ]
        p == IF package_id \in DOMAIN pkgs THEN pkgs[package_id] ELSE fresh
    IN Put(pkgs, package_id, [p EXCEPT !.lcores = BitMapSet(@, l)])

\* nodes.insert(node_id as u16, Node {..})
NodeInsert(ns, n, bits) ==
    Put(ns, AsU16(n), [ node_id |-> AsU16(n), lcores |-> bits ])

\* Whether the argument of or_insert, and so identify_remote, is evaluated for
\* a core whose package is (present = TRUE) or is not yet in the map:
\* or_insert takes a value, so always.
IdentifyEvaluated(present) == TRUE

\* A panic inside the closure of the LazyLock: init's locals are dropped, the
\* Once is poisoned and the panic goes on through the calling thread.
Unwind(t, why) ==
    /\ once' = "poisoned"
    /\ pc' = [pc EXCEPT ![t] = "panicked"]
    /\ crash' = why
    /\ at' = "none"
    /\ num_cpus' = 0 /\ num_nodes' = 0 /\ node_id' = 0 /\ lcore_id' = 0
    /\ packages' = EmptyMap /\ lcores' = EmptyMap /\ nodes' = EmptyMap
    /\ bits_of_node' = {} /\ node_online' = <<>> /\ seen' = EmptyMap
    /\ idCalls' = <<>>
    /\ UNCHANGED << TOPO, got, inits, qres >>

\* Lines 35-40: the two online files.
ReadOnline(t) ==
    /\ pc[t] = "init" /\ at = "online"
    /\ \E fc \in OnlineFiles(MaxPairs), fn \in OnlineFiles(MaxPairs) :
         /\ (Len(fc) = 2 /\ Len(fn) = 2) =>
                read_online_from_sysfs(fc) * read_online_from_sysfs(fn) <= MaxPairs
         /\ IF OnlinePanics(fc) \/ OnlinePanics(fn)
            THEN Unwind(t, "online")
            ELSE /\ num_cpus' = read_online_from_sysfs(fc)
                 /\ num_nodes' = read_online_from_sysfs(fn)
                 /\ node_online' = fn
                 /\ at' = "loop"
                 /\ node_id' = 0 /\ lcore_id' = 0
                 /\ bits_of_node' = BitMapWithCapacity(read_online_from_sysfs(fc))
                 /\ UNCHANGED << once, TOPO, pc, got, inits, crash, packages,
                                 lcores, nodes, seen, idCalls, qres >>

\* Lines 44-85: one iteration of the inner loop.
ScanPair(t) ==
    /\ pc[t] = "init" /\ at = "loop"
    /\ node_id < num_nodes /\ lcore_id < num_cpus
    /\ \E d \in DirStates, idok \in BOOLEAN :
         IF ~d.exists
         THEN /\ seen' = Put(seen, <<node_id, lcore_id>>, d)
              /\ lcore_id' = lcore_id + 1
              /\ UNCHANGED << once, TOPO, pc, got, inits, crash, at, num_cpus,
                              num_nodes, node_id, packages, lcores, nodes,
                              bits_of_node, node_online, idCalls, qres >>
         ELSE IF IntegerPanics(d.physical_package_id)
         THEN Unwind(t, "physical_package_id")
         ELSE IF IntegerPanics(d.core_id)
         THEN Unwind(t, "core_id")
         ELSE LET package_id == AsU16(read_integer_from_sysfs(d.physical_package_id))
                  core_id == AsU16(read_integer_from_sysfs(d.core_id))
                  present == package_id \in DOMAIN packages
              IN IF IdentifyEvaluated(present) /\ ~idok
                 THEN Unwind(t, "cpuid")
                 ELSE /\ seen' = Put(seen, <<node_id, lcore_id>>, d)
                      /\ lcores' = Put(lcores, AsU16(lcore_id),
                                       NewLCore(package_id, node_id, lcore_id, core_id))
                      /\ idCalls' = IF IdentifyEvaluated(present)
                                    THEN Append(idCalls, [ lcore |-> lcore_id,
                                                           package_id |-> package_id,
                                                           created |-> ~present ])
                                    ELSE idCalls
                      /\ packages' = PackageEntry(packages, package_id, node_id,
                                                  lcore_id, num_cpus)
                      /\ bits_of_node' = BitMapSet(bits_of_node, lcore_id)
                      /\ lcore_id' = lcore_id + 1
                      /\ UNCHANGED << once, TOPO, pc, got, inits, crash, at,
                                      num_cpus, num_nodes, node_id, nodes,
                                      node_online, qres >>

\* Lines 87-93, and line 43 of the next iteration of the outer loop.
NodeEnd(t) ==
    /\ pc[t] = "init" /\ at = "loop"
    /\ node_id < num_nodes /\ lcore_id = num_cpus
    /\ nodes' = NodeInsert(nodes, node_id, bits_of_node)
    /\ node_id' = node_id + 1
    /\ lcore_id' = 0
    /\ bits_of_node' = BitMapWithCapacity(num_cpus)
    /\ UNCHANGED << once, TOPO, pc, got, inits, crash, at, num_cpus, num_nodes,
                    packages, lcores, node_online, seen, idCalls, qres >>

\* Lines 96-100: init returns, the LazyLock stores the value and the Once
\* completes; the calling thread gets its reference.
InitReturn(t) ==
    /\ pc[t] = "init" /\ at = "loop"
    /\ node_id = num_nodes
    /\ TOPO' = { [ packages |-> packages, lcores |-> lcores, nodes |-> nodes ] }
    /\ once' = "complete"
    /\ got' = [got EXCEPT ![t] = TOPO']
    /\ pc' = [pc EXCEPT ![t] = "done"]
    /\ at' = "none"
    /\ packages' = EmptyMap /\ lcores' = EmptyMap /\ nodes' = EmptyMap
    /\ UNCHANGED << inits, crash, num_cpus, num_nodes, node_id, lcore_id,
                    bits_of_node, node_online, seen, idCalls, qres >>

\* ------------------------------------------------- TOPO and topology()

\* A guard that does not see a build in progress: check-then-build with no lock.
RunsInit_Unlocked(o) == o \in {"incomplete", "running"}

\* A guard that runs the closure again after it panicked, as
\* OnceLock::get_or_init would.
RunsInit_AfterPanic(o) == o \in {"incomplete", "poisoned"}

\* Once::call_once as LazyLock::force uses it: the closure runs only from the
\* incomplete state.
RunsInit(o) == o = "incomplete"

\* Once::call_once: a caller waits while another thread runs the closure.
MustWait(o) == o = "running"

\* LazyLock::force hands out the value only once the Once has completed.
MayReturn(o) == o = "complete"

\* LazyLock::force on a poisoned Once panics.
MustPanic(o) == o = "poisoned"

\* topology(), first caller: the Once goes to running and this thread runs
\* Topology::init.
topology_init(t) ==
    /\ pc[t] = "idle" /\ RunsInit(once)
    /\ once' = "running"
    /\ pc' = [pc EXCEPT ![t] = "init"]
    /\ at' = "online"
    /\ inits' = inits + 1
    /\ UNCHANGED << TOPO, got, crash, num_cpus, num_nodes, node_id, lcore_id,
                    packages, lcores, nodes, bits_of_node, node_online, seen,
                    idCalls, qres >>

\* topology() while another thread runs the build: the caller blocks.
topology_wait(t) ==
    /\ pc[t] = "idle" /\ ~RunsInit(once) /\ MustWait(once)
    /\ pc' = [pc EXCEPT ![t] = "blocked"]
    /\ UNCHANGED << once, TOPO, got, inits, crash, buildVars, qres >>

\* A blocked caller is woken when the build has ended, either way.
topology_wake(t) ==
    /\ pc[t] = "blocked" /\ ~MustWait(once)
    /\ IF MayReturn(once)
       THEN /\ got' = [got EXCEPT ![t] = TOPO]
            /\ pc' = [pc EXCEPT ![t] = "done"]
       ELSE /\ got' = got
            /\ pc' = [pc EXCEPT ![t] = "panicked"]
    /\ UNCHANGED << once, TOPO, inits, crash, buildVars, qres >>

\* topology() after the build: the reference to the stored value.
topology_ready(t) ==
    /\ pc[t] \in {"idle", "done"} /\ ~RunsInit(once) /\ MayReturn(once)
    /\ got' = [got EXCEPT ![t] = TOPO]
    /\ pc' = [pc EXCEPT ![t] = "done"]
    /\ UNCHANGED << once, TOPO, inits, crash, buildVars, qres >>

\* topology() after a build that panicked: the call panics.
topology_poisoned(t) ==
    /\ pc[t] \in {"idle", "panicked"} /\ ~RunsInit(once) /\ MustPanic(once)
    /\ pc' = [pc EXCEPT ![t] = "panicked"]
    /\ UNCHANGED << once, TOPO, got, inits, crash, buildVars, qres >>

\* ------------------------------------------------------- the query methods

max_num_nodes(T) == Cardinality(DOMAIN T.nodes)

max_num_packages(T) == Cardinality(DOMAIN T.packages)

max_num_lcores(T) == Cardinality(DOMAIN T.lcores)

\* lcore() answering an unknown id with a zeroed LCore.
lcore_OrDefault(T, id) ==
    IF id \in DOMAIN T.lcores THEN { T.lcores[id] }
    ELSE { [ package_id |-> 0, node_id |-> 0, lcore_id |-> 0, core_id |-> 0 ] }

lcore(T, id) == Get(T.lcores, id)

node(T, id) == Get(T.nodes, id)

package(T, id) == Get(T.packages, id)

\* node_of_lcore() looking the node up by the lcore's own id.
node_of_lcore_ByLcoreId(T, id) ==
    IF Get(T.lcores, id) = {} THEN {} ELSE Get(T.nodes, T.lcores[id].lcore_id)

node_of_lcore(T, id) ==
    IF Get(T.lcores, id) = {} THEN {} ELSE Get(T.nodes, T.lcores[id].node_id)

package_of_lcore(T, id) ==
    IF Get(T.lcores, id) = {} THEN {} ELSE Get(T.packages, T.lcores[id].package_id)

lcores_of_node(T, id) ==
    IF Get(T.nodes, id) = {} THEN {} ELSE { T.nodes[id].lcores }

lcores_of_package(T, id) ==
    IF Get(T.packages, id) = {} THEN {} ELSE { T.packages[id].lcores }

\* The ids the queries are called with: every id the build can produce and
\* one past each range.
QueryIds == (0 .. MaxPairs) \cup (0 .. MaxPkg + 1)

NoQuery == [ op |-> "none", id |-> 0, result |-> {} ]

\* A call and its result, which the caller holds until it drops it.
Asked(t, op, id, r) ==
    /\ pc[t] = "done" /\ got[t] # {}
    /\ qres = NoQuery
    /\ qres' = [ op |-> op, id |-> id, result |-> r ]
    /\ UNCHANGED << once, TOPO, pc, got, inits, crash, buildVars >>

\* One call of a query method, through the reference topology() returned.
Query(t) ==
    \E id \in QueryIds : \E T \in got[t] :
        \/ Asked(t, "lcore", id, lcore(T, id))
        \/ Asked(t, "node", id, node(T, id))
        \/ Asked(t, "package", id, package(T, id))
        \/ Asked(t, "node_of_lcore", id, node_of_lcore(T, id))
        \/ Asked(t, "package_of_lcore", id, package_of_lcore(T, id))
        \/ Asked(t, "lcores_of_node", id, lcores_of_node(T, id))
        \/ Asked(t, "lcores_of_package", id, lcores_of_package(T, id))

\* The caller is done with the result of its query.
QueryDropped(t) ==
    /\ pc[t] = "done" /\ qres # NoQuery
    /\ qres' = NoQuery
    /\ UNCHANGED << once, TOPO, pc, got, inits, crash, buildVars >>

\* ------------------------------------------------------------ specifications

Init ==
    /\ once = "incomplete"
    /\ TOPO = {}
    /\ pc = [t \in Threads |-> "idle"]
    /\ got = [t \in Threads |-> {}]
    /\ inits = 0
    /\ crash = "none"
    /\ at = "none"
    /\ num_cpus = 0 /\ num_nodes = 0 /\ node_id = 0 /\ lcore_id = 0
    /\ packages = EmptyMap /\ lcores = EmptyMap /\ nodes = EmptyMap
    /\ bits_of_node = {}
    /\ node_online = <<>>
    /\ seen = EmptyMap
    /\ idCalls = <<>>
    /\ qres = NoQuery

Build(t) == ReadOnline(t) \/ ScanPair(t) \/ NodeEnd(t) \/ InitReturn(t)

\* One thread, as in test_topology: it calls topology() and then the queries.
Next ==
    \/ topology_init(Main)
    \/ Build(Main)
    \/ topology_ready(Main)
    \/ Query(Main)
    \/ QueryDropped(Main)

Spec == Init /\ [][Next]_vars

\* Any number of threads calling topology(), at any time.
NextConc ==
    \E t \in Threads :
        \/ topology_init(t)
        \/ Build(t)
        \/ topology_wait(t)
        \/ topology_wake(t)
        \/ topology_ready(t)
        \/ topology_poisoned(t)

SpecConc == Init /\ [][NextConc]_vars

\* ------------------------------------------------- what the claims speak of

\* The built Topology (meaningful once TOPO holds one).
Topo == CHOOSE T \in TOPO : TRUE

Built == once = "complete" /\ TOPO # {}

\* The three maps as they stand: those of the stored Topology, or init's locals.
Maps ==
    IF TOPO # {} THEN Topo
    ELSE [ packages |-> packages, lcores |-> lcores, nodes |-> nodes ]

\* Ids wide enough for every cpu, node and package id of the maps and one past.
Ids == QueryIds

\* The build found the directory node<n>/cpu<c>/topology.
DirExists(n, c) == <<n, c>> \in DOMAIN seen /\ seen[<<n, c>>].exists

\* The build looked for node<n>/cpu<c>/topology and found none.
DirAbsent(n, c) == <<n, c>> \in DOMAIN seen /\ ~seen[<<n, c>>].exists

\* Some physical_package_id file the build read holds p.
PkgReported(p) ==
    \E k \in DOMAIN seen :
        seen[k].exists /\ seen[k].physical_package_id = p

\* No cpu has a topology directory under two nodes (what the kernel writes:
\* node<N>/cpu<C> is a link to the cpu, made under the cpu's one node).
OneNodePerCpu ==
    \A j, k \in DOMAIN seen :
        (seen[j].exists /\ seen[k].exists /\ j[2] = k[2]) => j[1] = k[1]

PackagesHolding(T, l) == { p \in DOMAIN T.packages : l \in T.packages[p].lcores }

NodesHolding(T, l) == { n \in DOMAIN T.nodes : l \in T.nodes[n].lcores }

\* Every lcore is a member of exactly one Package and one Node, those its
\* fields name.
Membership(T) ==
    \A l \in DOMAIN T.lcores :
        /\ PackagesHolding(T, l) = { T.lcores[l].package_id }
        /\ NodesHolding(T, l) = { T.lcores[l].node_id }
        /\ \A p \in PackagesHolding(T, l) :
               T.packages[p].package_id = T.lcores[l].package_id
        /\ \A n \in NodesHolding(T, l) :
               T.nodes[n].node_id = T.lcores[l].node_id

\* Every member bit of a Node or Package is an lcore of the map, with that
\* id and that owner.
MembersAgree(T) ==
    /\ \A n \in DOMAIN T.nodes : \A c \in T.nodes[n].lcores :
           /\ lcore(T, c) # {}
           /\ \A x \in lcore(T, c) :
                  x.lcore_id = c /\ x.node_id = T.nodes[n].node_id
    /\ \A p \in DOMAIN T.packages : \A c \in T.packages[p].lcores :
           /\ lcore(T, c) # {}
           /\ \A x \in lcore(T, c) :
                  x.lcore_id = c /\ x.package_id = T.packages[p].package_id

\* ------------------------------------------------------------------ claims

\* C1 as stated: in the Topology init returns, for every sysfs layout, every
\* key of lcores is set in the member bit-set of exactly one Package and of
\* exactly one Node, the ones its package_id and node_id fields name.
C1_AnyLayout == Built => Membership(Topo)

\* C1, amended: the same, for every sysfs layout in which no cpu has a
\* topology directory under more than one node.
C1_OneNodePerCpu == (Built /\ OneNodePerCpu) => Membership(Topo)

\* A build of such a layout with two lcores in one package.
C1_Witness ==
    /\ Built /\ OneNodePerCpu
    /\ \E p \in DOMAIN Topo.packages : Cardinality(Topo.packages[p].lcores) >= 2
    /\ Cardinality(DOMAIN Topo.packages) >= 2

\* C2 as stated: in the built Topology every core id set in a Node's (a
\* Package's) member bit-set is a present lcore with that lcore_id and that
\* node_id (package_id).
C2_AnyLayout == Built => MembersAgree(Topo)

\* C2, amended: the same, when no cpu has a topology directory under more
\* than one node.
C2_OneNodePerCpu == (Built /\ OneNodePerCpu) => MembersAgree(Topo)

\* A build of such a layout with members in two nodes.
C2_Witness ==
    /\ Built /\ OneNodePerCpu
    /\ Cardinality({ n \in DOMAIN Topo.nodes : Topo.nodes[n].lcores # {} }) >= 2
    /\ \E l \in DOMAIN Topo.lcores : l # 0 /\ Topo.lcores[l].package_id # 0

\* C4 as stated: after the build the nodes map has an entry for every node
\* id of the inclusive range "<start>-<end>" read from node/online, empty
\* when no topology directory was found under that node.
C4_OnlineRange ==
    Built =>
        \A id \in node_online[1] .. node_online[2] :
            /\ node(Topo, id) # {}
            /\ (\A c \in Ids : ~DirExists(id, c)) =>
                   lcores_of_node(Topo, id) = { {} }

\* C5: a (node, cpu) pair with no topology directory is not set in that
\* node's bit-set; an lcore id with no directory under any node, and a package
\* id no physical_package_id file reports, is a key of no map and a member of
\* no bit-set -- at every step of the build and after it.
C5_NoEvidenceNoEntry ==
    /\ \A n \in Ids : \A c \in Ids :
           ~DirExists(n, c) =>
               /\ n \in DOMAIN Maps.nodes => c \notin Maps.nodes[n].lcores
               /\ (at = "loop" /\ n = node_id) => c \notin bits_of_node
    /\ \A c \in Ids :
           (\A n \in Ids : ~DirExists(n, c)) =>
               /\ c \notin DOMAIN Maps.lcores
               /\ PackagesHolding(Maps, c) = {}
               /\ NodesHolding(Maps, c) = {}
               /\ c \notin bits_of_node
    /\ \A p \in Ids :
           ~PkgReported(p) =>
               /\ p \notin DOMAIN Maps.packages
               /\ \A l \in DOMAIN Maps.lcores : Maps.lcores[l].package_id # p

\* A finished build that found a directory, found none at another pair of
\* the same node, and found none under any node for some cpu it looked for.
C5_Witness ==
    /\ Built
    /\ \E n \in Ids : \E c1, c2 \in Ids : DirExists(n, c1) /\ DirAbsent(n, c2)
    /\ \E c \in Ids : DirAbsent(0, c) /\ \A n \in Ids : ~DirExists(n, c)
    /\ \E p \in 0 .. MaxPkg : ~PkgReported(p)

\* C9 as stated: package(id) and lcores_of_package(id) are present for every
\* id below max_num_packages(), node(id) and lcores_of_node(id) for every id
\* below max_num_nodes(): the keys of both maps are exactly 0 .. count-1.
C9_ContiguousKeys ==
    Built =>
        /\ \A id \in 0 .. max_num_packages(Topo) - 1 :
               package(Topo, id) # {} /\ lcores_of_package(Topo, id) # {}
        /\ \A id \in 0 .. max_num_nodes(Topo) - 1 :
               node(Topo, id) # {} /\ lcores_of_node(Topo, id) # {}
        /\ DOMAIN Topo.packages = 0 .. max_num_packages(Topo) - 1
        /\ DOMAIN Topo.nodes = 0 .. max_num_nodes(Topo) - 1

\* C10 as stated: the hardware identifier is invoked only when a Package is
\* newly created, once per distinct package id, on the first lcore met for
\* that package; a later core of the package changes its bit-set alone.
C10_IdentifyOncePerPackage ==
    /\ \A i \in 1 .. Len(idCalls) : idCalls[i].created
    /\ Built =>
          \A p \in DOMAIN Topo.packages :
              /\ Cardinality({ i \in 1 .. Len(idCalls) : idCalls[i].package_id = p }) = 1
              /\ \A i \in 1 .. Len(idCalls) :
                     idCalls[i].package_id = p =>
                         Topo.packages[p].cpu_info = CpuInfo(idCalls[i].lcore)

\* The scan behind a Topology is over: every (node, cpu) path of the two
\* ranges was looked at, every node was inserted and every core found is there.
ScanFinished(T) ==
    /\ DOMAIN seen = { <<n, c>> : n \in 0 .. num_nodes - 1, c \in 0 .. num_cpus - 1 }
    /\ DOMAIN T.nodes = 0 .. num_nodes - 1
    /\ DOMAIN T.lcores = { c \in Ids : \E n \in Ids : DirExists(n, c) }

C3_State ==
    /\ inits <= 1
    /\ \A t \in Threads :
           got[t] # {} =>
               /\ once = "complete"
               /\ got[t] = TOPO
               /\ ScanFinished(Topo)

C3_Step ==
    /\ TOPO # {} => TOPO' = TOPO
    /\ \A t \in Threads :
           /\ (once = "running" /\ pc[t] = "idle" /\ pc'[t] # "idle") =>
                  pc'[t] = "blocked"
           /\ (pc[t] = "blocked" /\ pc'[t] # "blocked") => once # "running"
           /\ got[t] # {} => got'[t] = got[t]

\* C3: under any interleaving of calls of topology() by any of the threads,
\* Topology::init is entered at most once, a caller arriving while the build
\* runs blocks until it has ended, no call returns before the build has
\* finished (the reference is to the stored, fully scanned Topology) and all
\* calls return the same Topology.
C3_OnceOnly == [](C3_State) /\ [][C3_Step]_vars

\* The build has ended with a core found, its thread holds the reference and
\* a caller that arrived during the build is still blocked.
C3_Witness ==
    /\ Built /\ DOMAIN Topo.lcores # {}
    /\ \E t, u \in Threads : pc[t] = "blocked" /\ pc[u] = "done" /\ got[u] = TOPO

C7_State ==
    crash # "none" =>
        /\ once = "poisoned"
        /\ TOPO = {}
        /\ inits = 1
        /\ at = "none"
        /\ \A t \in Threads : got[t] = {} /\ pc[t] # "init"

C7_Step ==
    crash # "none" =>
        /\ crash' = crash
        /\ \A t \in Threads : pc'[t] # pc[t] => pc'[t] = "panicked"

\* C7: once a step of the build has failed (an online file, a
\* physical_package_id or core_id file, or the hardware identifier), no call
\* of topology() on any thread, then or later, returns a Topology, and the
\* build is not run again.
C7_FailedBuildIsFinal == [](C7_State) /\ [][C7_Step]_vars

\* The identifier failed, and every thread's call has panicked.
C7_Witness ==
    /\ crash = "cpuid"
    /\ \A t \in Threads : pc[t] = "panicked"

\* C6: for every key of lcores, node_of_lcore and package_of_lcore return a
\* present value whose node_id / package_id is that of lcore(id).
C6_CrossReference ==
    Built =>
        /\ (qres.op = "node_of_lcore" /\ qres.id \in DOMAIN Topo.lcores) =>
               /\ qres.result # {}
               /\ \A r \in qres.result : \A x \in lcore(Topo, qres.id) :
                      r.node_id = x.node_id
        /\ (qres.op = "package_of_lcore" /\ qres.id \in DOMAIN Topo.lcores) =>
               /\ qres.result # {}
               /\ \A r \in qres.result : \A x \in lcore(Topo, qres.id) :
                      r.package_id = x.package_id

\* node_of_lcore was asked for a core whose node id differs from its own id.
C6_Witness ==
    /\ Built
    /\ qres.op = "node_of_lcore" /\ qres.id \in DOMAIN Topo.lcores
    /\ \E r \in qres.result : r.node_id # qres.id /\ qres.id \in r.lcores

\* The id was not observed during the build: no topology directory for that
\* cpu, a node outside the range scanned, a package id no file reported.
Unobserved(op, id) ==
    CASE op \in {"lcore", "node_of_lcore", "package_of_lcore"} ->
            \A n \in Ids : ~DirExists(n, id)
      [] op \in {"node", "lcores_of_node"} -> id >= num_nodes
      [] op \in {"package", "lcores_of_package"} -> ~PkgReported(id)
      [] OTHER -> FALSE

C8_State ==
    /\ (qres.op # "none" /\ Unobserved(qres.op, qres.id)) => qres.result = {}
    /\ (qres.op = "lcore" /\ qres.id = num_cpus) => qres.result = {}

C8_Step ==
    qres' # qres => (TOPO' = TOPO /\ got' = got /\ once' = once /\ crash' = crash)

\* C8: each of the seven queries, called with an id not observed during the
\* build, returns None, fails nothing and leaves the Topology as it was;
\* lcore(num_cpus) is one such call.
C8_AbsentIsNone == [](C8_State) /\ [][C8_Step]_vars

\* lcore(num_cpus) was asked of a Topology that holds cores, and returned None.
C8_Witness ==
    /\ Built /\ DOMAIN Topo.lcores # {}
    /\ qres.op = "lcore" /\ qres.id = num_cpus /\ qres.result = {}

====
